---- MODULE Spec2Model ----
(***************************************************************************)
(* Model of the dtlabs library.  RPC layer: RPCClient (rpc/_client.py),    *)
(* RPCServer (rpc/rmq/_server.py) and Message (rpc/_base_message.py)       *)
(* talking through an AMQP broker (default exchange, one work queue, one   *)
(* exclusive reply queue per client).  Object storage: S3Bucket and        *)
(* OCIBucket (cloud/buckets) behind Bucket, over a vendor key-value store. *)
(***************************************************************************)
EXTENDS Integers, Sequences, FiniteSets, TLC

\* ---------------------------------------------------------------- bounds
MaxCalls   == 2   \* calls issued (correlation tokens minted) in one behaviour
MaxCrashes == 1   \* server connection losses in one behaviour
MaxSlices  == 2   \* expired process_data_events slices counted per call
MaxRestarts == 1  \* broker restarts in one behaviour

Clients  == {"c1", "c2"}
Servers  == {"s1", "s2"}
Handlers == {"add", "first"}

\* threads of one process that call on the same RPCClient instance
Threads == {"t1", "t2"}
Shared  == "c1"

\* timeout argument of RPCClient.call: None (the default) or a number of seconds
NoTimeout      == 0 - 1
FiniteTimeouts == {1}

\* ------------------------------------------------------ object storage
Providers == {"AWS", "OCI"}

\* keys fetched by one list call of the vendor (both vendors: 1000), scaled
PageLimit == 2

\* the keys of the bucket, in the order the vendors list them (by name)
Keys == << <<"a">>, <<"a", "b">>, <<"a", "c">>, <<"b">> >>
KeySet == {Keys[i] : i \in 1..Len(Keys)}
Prefixes == { <<"a">>, <<"b">> }

\* contents of objects and files
Bytes == { <<1>>, <<2>> }

\* an object (or local file) and the lack of one
Obj(b) == [present |-> TRUE, data |-> b]
NoObject == [present |-> FALSE, data |-> <<>>]

\* what callers pass to upload_item: bytes, or a BytesIO at its start
BytesIO(b) == [kind |-> "stream", data |-> b, pos |-> 0]
Items == {[kind |-> "bytes", data |-> b, pos |-> 0] : b \in Bytes}
             \cup {BytesIO(b) : b \in Bytes}

\* outcome of a storage operation: a return value, or the exception raised
NoOutcome ==
    [op |-> "none", path |-> <<>>, ok |-> TRUE, err |-> "none", wraps |-> FALSE,
     names |-> FALSE, calls |-> 0, data |-> <<>>, keys |-> <<>>]

Returned(o, k, n, b, ks) ==
    [op |-> o, path |-> k, ok |-> TRUE, err |-> "none", wraps |-> FALSE,
     names |-> FALSE, calls |-> n, data |-> b, keys |-> ks]

\* a vendor call raised: the methods of OCIBucket catch Exception and raise
\* RuntimeError(f"... {path}: {e}") from e; the methods of S3Bucket have no
\* try, so the vendor's exception leaves them as it is
VendorRaised(prov, o, k, n) ==
    IF prov = "OCI"
    THEN [op |-> o, path |-> k, ok |-> FALSE, err |-> "RuntimeError",
          wraps |-> TRUE, names |-> TRUE, calls |-> n, data |-> <<>>, keys |-> <<>>]
    ELSE [op |-> o, path |-> k, ok |-> FALSE, err |-> "ClientError",
          wraps |-> FALSE, names |-> FALSE, calls |-> n, data |-> <<>>, keys |-> <<>>]

\* ------------------------------------------------- constructing a Bucket
\* provider arguments callers pass, and bucket names
ProviderArgs == {"AWS", "OCI", "GCP"}
BucketNames == {"aios-lib", "other"}

\* required_keys of _initialize_aws and _initialize_oci
RequiredKeys(prov) ==
    IF prov = "AWS" THEN {"aws_access_key_id", "aws_secret_access_key", "region"}
    ELSE IF prov = "OCI"
         THEN {"user_ocid", "tenancy_ocid", "region", "fingerprint", "private_key"}
         ELSE {}

\* a keyword argument is not passed, passed as None (or ""), or given
ArgStates == {"absent", "none", "given"}

\* no Bucket has been constructed
NotMade ==
    [done |-> FALSE, name |-> "", prov |-> "", absentBoth |-> {}, instance |-> FALSE,
     raised |-> "none", services |-> {}, signer |-> FALSE, bucket |-> ""]

\* ------------------------------------------------------- Python values
\* every value is [t |-> type name, v |-> sequence of integers]
PyInt(n)   == [t |-> "int",   v |-> <<n>>]
PyTuple(s) == [t |-> "tuple", v |-> s]
PyList(s)  == [t |-> "list",  v |-> s]

\* optional values: None and a present value
None    == <<>>
Some(b) == <<b>>

\* field values a Message is constructed with, and the Messages themselves
Messages ==
    {[x |-> PyInt(1),       y |-> PyInt(2)],
     [x |-> PyTuple(<<1>>), y |-> PyInt(1)]}

\* ------------------------------------------------------------- str()
DigitChar == <<"0", "1", "2", "3", "4", "5", "6", "7", "8", "9">>

RECURSIVE Digits(_)
Digits(n) == IF n < 10 THEN <<DigitChar[n + 1]>>
             ELSE Digits(n \div 10) \o <<DigitChar[(n % 10) + 1]>>

RECURSIVE Join(_)
Join(s) == IF s = <<>> THEN <<>>
           ELSE Digits(Head(s)) \o
                (IF Len(s) > 1 THEN <<",", " ">> \o Join(Tail(s)) ELSE <<>>)

\* str(value): the text of the reply body, as a sequence of characters
Str(val) ==
    CASE val.t = "int"   -> Digits(val.v[1])
      [] val.t = "list"  -> <<"[">> \o Join(val.v) \o <<"]">>
      [] val.t = "tuple" -> <<"(">> \o Join(val.v) \o
                            (IF Len(val.v) = 1 THEN <<",">> ELSE <<>>) \o <<")">>

\* ------------------------------------------------------------- json
\* a JSON text is [quoted |-> number of string-literal wrappings,
\*                 obj    |-> the object: field name -> JSON value]
\* a JSON value is [j |-> "num" | "arr", v |-> sequence of integers]
JsonOf(val) == IF val.t = "int" THEN [j |-> "num", v |-> val.v]
                                ELSE [j |-> "arr", v |-> val.v]

PyOf(jv) == IF jv.j = "num" THEN [t |-> "int", v |-> jv.v]
                            ELSE [t |-> "list", v |-> jv.v]

\* BaseModel.json(): the object text, one member per field, in field order
ModelJson(m) == [quoted |-> 0, obj |-> [f \in DOMAIN m |-> JsonOf(m[f])]]

\* json.dumps of a str: the text wrapped in one more string literal
JsonDumps(text) == [quoted |-> text.quoted + 1, obj |-> text.obj]

\* json.loads: a string literal yields a str, an object text yields a dict
JsonLoads(doc) ==
    IF doc.quoted > 0
    THEN [kind |-> "str",
          text |-> [quoted |-> doc.quoted - 1, obj |-> doc.obj],
          d    |-> [f \in DOMAIN doc.obj |-> PyOf(doc.obj[f])]]
    ELSE [kind |-> "dict",
          text |-> doc,
          d    |-> [f \in DOMAIN doc.obj |-> PyOf(doc.obj[f])]]

\* a body encoded once only: the object text itself
EncodeBodyOnce(m) == ModelJson(m)

\* Message.dumps / the body RPCClient.call publishes
EncodeBody(m) == JsonDumps(ModelJson(m))

\* a body decoded once only
DecodeBodyOnce(body) == JsonLoads(body)

\* RPCServer.on_request: body_dict = json.loads(json.loads(body));
\* json.loads of something that is not a str raises TypeError
DecodeBody(body) ==
    LET once == JsonLoads(body)
    IN  IF once.kind = "str" THEN JsonLoads(once.text)
        ELSE [kind |-> "error", text |-> once.text, d |-> once.d]

\* ---------------------------------------------------------- handlers
\* the registered function applied to keyword arguments:
\* [ok |-> returned normally, val |-> the value returned]
Raised == [ok |-> FALSE, val |-> PyInt(0)]

ApplyHandler(h, a) ==
    IF h = "add"
    THEN IF a.x.t = "int" /\ a.y.t = "int"
         THEN [ok |-> TRUE, val |-> PyInt(a.x.v[1] + a.y.v[1])]
         ELSE IF a.x.t = a.y.t
              THEN [ok |-> TRUE, val |-> [t |-> a.x.t, v |-> a.x.v \o a.y.v]]
              ELSE Raised
    ELSE [ok |-> TRUE, val |-> a.x]

\* self.__func(**body_dict): unpacking anything but a mapping raises
Invoke(h, dec) == IF dec.kind = "dict" THEN ApplyHandler(h, dec.d) ELSE Raised

\* ------------------------------------------------------------ state
VARIABLES
    fleet,       \* the servers the deployment runs
    func,        \* the function every RPCServer is constructed with
    qexists,     \* the work queue has been declared on the broker
    workq,       \* ready request envelopes of the work queue, oldest first
    registered,  \* server -> its consumer is registered on the work queue
    prefetch,    \* server -> basic_qos prefetch_count of its channel (0: none)
    unacked,     \* server -> deliveries sent to it and not yet acknowledged
    spc,         \* server -> position of its thread
    crashes,     \* connection losses so far
    replyq,      \* client -> replies that reached it and are not yet dispatched
    cpc,         \* client -> position of its caller
    corr_id,     \* client -> self.corr_id
    response,    \* client -> self.response
    timeout,     \* client -> timeout argument of the call in progress
    elapsed,     \* client -> seconds the call in progress spent in expired slices
    result,      \* client -> value its call has returned
    nextTok,     \* the next uuid4 to be minted
    sent,        \* history: token -> [msg, client] of the call that minted it
    accepted,    \* history: tokens whose request was routed into the work queue
    acked,       \* history: tokens whose delivery was acknowledged
    replies,     \* history: reply envelopes published by servers
    recorded,    \* history: token -> number of replies stored in self.response
    stopTok,     \* history: server -> token in the handler when stop was called
    stopping,    \* server -> another thread is inside stop_consuming
    cq,          \* client -> its connection is open and its reply queue exists
    closed,      \* history: client -> close() was called on it
    restarts,    \* broker restarts so far
    tpc,         \* thread -> where it is in a call on the shared instance
    ttok,        \* history: thread -> token its call minted
    tres,        \* thread -> value its call has returned
    provider,    \* Bucket.provider, the service every operation is delegated to
    store,       \* the vendor's bucket: key -> object
    localf,      \* the local file that upload_file reads and download_file writes
    lastUp,      \* history: key -> bytes of the last successful upload_item
    bret,        \* outcome of the last storage operation
    made         \* outcome of constructing the Bucket

vars == <<fleet, func, qexists, workq, registered, prefetch, unacked, spc, crashes,
          replyq, cpc, corr_id, response, timeout, elapsed, result, nextTok,
          sent, accepted, acked, replies, recorded, stopTok, stopping,
          cq, closed, restarts, tpc, ttok, tres,
          provider, store, localf, lastUp, bret, made>>

serverVars == <<registered, prefetch, unacked, spc, crashes, stopTok, stopping>>
clientVars == <<cpc, corr_id, response, timeout, elapsed, result, nextTok,
                sent, recorded>>

\* the state outside the request/reply exchange of live clients and servers
threadVars == <<tpc, ttok, tres>>
bucketVars == <<provider, store, localf, lastUp, bret, made>>
otherVars == <<cq, closed, restarts, threadVars, bucketVars>>

\* self.corr_id = None
NoCorr == 0

\* prefetch_count passed to basic_qos
QosPrefetch == 1

RpcInit(servers) ==
    /\ fleet = servers
    /\ func \in Handlers
    /\ qexists = FALSE
    /\ workq = <<>>
    /\ registered = [s \in Servers |-> FALSE]
    /\ prefetch = [s \in Servers |-> 0]
    /\ unacked = [s \in Servers |-> <<>>]
    /\ spc = [s \in Servers |-> "absent"]
    /\ crashes = 0
    /\ replyq = [c \in Clients |-> <<>>]
    /\ cpc = [c \in Clients |-> "idle"]
    /\ corr_id = [c \in Clients |-> NoCorr]
    /\ response = [c \in Clients |-> None]
    /\ timeout = [c \in Clients |-> NoTimeout]
    /\ elapsed = [c \in Clients |-> 0]
    /\ result = [c \in Clients |-> None]
    /\ nextTok = 1
    /\ sent = <<>>
    /\ accepted = {}
    /\ acked = {}
    /\ replies = {}
    /\ recorded = <<>>
    /\ stopTok = [s \in Servers |-> NoCorr]
    /\ stopping = [s \in Servers |-> FALSE]
    /\ cq = [c \in Clients |-> TRUE]
    /\ closed = [c \in Clients |-> FALSE]
    /\ restarts = 0
    /\ tpc = [t \in Threads |-> "idle"]
    /\ ttok = [t \in Threads |-> NoCorr]
    /\ tres = [t \in Threads |-> None]

\* no Bucket has been used
BucketIdle ==
    /\ provider = "AWS"
    /\ store = [k \in KeySet |-> NoObject]
    /\ localf = NoObject
    /\ lastUp = [k \in KeySet |-> NoObject]
    /\ bret = NoOutcome
    /\ made = NotMade

InitWith(servers) == RpcInit(servers) /\ BucketIdle

Init == InitWith({"s1"})

\* ----------------------------------------------------------- broker
\* basic_publish(exchange='', routing_key=q): the default exchange routes to
\* the queue of that name and drops the message when there is none
Route(q, exists, env) == IF exists THEN Append(q, env) ELSE q

\* deliveries of a closed connection are dropped
RequeueNone(msgs, q) == q

\* deliveries a closed or cancelled consumer held go back to the queue head
Requeue(msgs, q) == msgs \o q

\* every unacknowledged delivery, server by server
RECURSIVE UnackedOf(_)
UnackedOf(ss) ==
    IF ss = {} THEN <<>>
    ELSE LET s == CHOOSE x \in ss : TRUE
         IN  unacked[s] \o UnackedOf(ss \ {s})

UnackedAll == UnackedOf(Servers)

\* a consumer without a prefetch limit
CanDeliverNoQos(s) == registered[s] /\ workq # <<>>

\* the broker may send a delivery to a consumer under its prefetch limit
CanDeliver(s) ==
    /\ registered[s]
    /\ workq # <<>>
    /\ (prefetch[s] = 0 \/ Len(unacked[s]) < prefetch[s])

\* a broker that hands a copy to the consumer and keeps the request ready
BrokerDeliverCopy(s) ==
    /\ CanDeliver(s)
    /\ \A e \in {unacked[s][i] : i \in 1..Len(unacked[s])} :
          e.correlation_id # Head(workq).correlation_id
    /\ Head(workq).correlation_id \notin acked
    /\ unacked' = [unacked EXCEPT ![s] = Append(@, Head(workq))]
    /\ UNCHANGED <<otherVars, fleet, func, qexists, workq, registered, prefetch, spc,
                   crashes, stopTok, stopping, replyq, clientVars, accepted, acked,
                   replies>>

\* the broker sends the oldest ready request to a registered consumer; it
\* stays unacknowledged (basic_consume without auto_ack)
BrokerDeliver(s) ==
    /\ CanDeliver(s)
    /\ unacked' = [unacked EXCEPT ![s] = Append(@, Head(workq))]
    /\ workq' = Tail(workq)
    /\ UNCHANGED <<otherVars, fleet, func, qexists, registered, prefetch, spc, crashes, stopTok,
                   stopping, replyq, clientVars, accepted, acked, replies>>

\* ----------------------------------------------------------- RPCServer
\* RPCServer.__init__: connect and queue_declare(queue)
ServerInit(s) ==
    /\ s \in fleet
    /\ spc[s] \in {"absent", "down"}
    /\ spc' = [spc EXCEPT ![s] = "idle"]
    /\ qexists' = TRUE
    /\ UNCHANGED <<otherVars, fleet, func, workq, registered, prefetch, unacked, crashes, stopTok,
                   stopping, replyq, clientVars, accepted, acked, replies>>

\* RPCServer.start_consuming: basic_qos, basic_consume, enter the loop
StartConsuming(s) ==
    /\ spc[s] \in {"idle", "stopped"}
    /\ ~stopping[s]
    /\ prefetch' = [prefetch EXCEPT ![s] = QosPrefetch]
    /\ registered' = [registered EXCEPT ![s] = TRUE]
    /\ spc' = [spc EXCEPT ![s] = "consuming"]
    /\ stopTok' = [stopTok EXCEPT ![s] = NoCorr]
    /\ UNCHANGED <<otherVars, fleet, func, qexists, workq, unacked, crashes, stopping,
                   replyq, clientVars, accepted, acked, replies>>

\* the delivery on_request is working on, and its decoded body
Current(s) == Head(unacked[s])
BodyDict(s) == DecodeBody(Current(s).body)

\* on_request, lines 20-21: decode the body and call the function
OnRequestBegin(s) ==
    /\ spc[s] = "consuming"
    /\ unacked[s] # <<>>
    /\ spc' = [spc EXCEPT ![s] =
                  IF BodyDict(s).kind = "dict" THEN "handling" ELSE "failed"]
    /\ UNCHANGED <<otherVars, fleet, func, qexists, workq, registered, prefetch, unacked, crashes,
                   stopTok, stopping, replyq, clientVars, accepted, acked, replies>>

\* the exception of the function is swallowed and a reply is sent anyway
HandlerEndSwallow(s) ==
    /\ spc[s] = "handling"
    /\ spc' = [spc EXCEPT ![s] = "returned"]
    /\ UNCHANGED <<otherVars, fleet, func, qexists, workq, registered, prefetch, unacked, crashes,
                   stopTok, stopping, replyq, clientVars, accepted, acked, replies>>

\* the function returns, or raises and the exception leaves start_consuming
HandlerEnd(s) ==
    /\ spc[s] = "handling"
    /\ spc' = [spc EXCEPT ![s] =
                  IF Invoke(func, BodyDict(s)).ok THEN "returned" ELSE "failed"]
    /\ UNCHANGED <<otherVars, fleet, func, qexists, workq, registered, prefetch, unacked, crashes,
                   stopTok, stopping, replyq, clientVars, accepted, acked, replies>>

\* the reply envelope of on_request, lines 23-30
ReplyEnvelope(req, val) ==
    [body           |-> Str(val),
     reply_to       |-> req.reply_to,
     correlation_id |-> req.correlation_id]

\* a publish that raises when the reply queue is gone (mandatory routing)
PublishReplyMandatory(s) ==
    /\ spc[s] = "returned"
    /\ LET env == ReplyEnvelope(Current(s), Invoke(func, BodyDict(s)).val)
       IN  /\ replyq' = [replyq EXCEPT ![env.reply_to] =
                                          Route(@, cq[env.reply_to], env)]
           /\ replies' = replies \cup {env}
           /\ spc' = [spc EXCEPT ![s] =
                         IF cq[env.reply_to] THEN "replied" ELSE "failed"]
    /\ UNCHANGED <<otherVars, fleet, func, qexists, workq, registered, prefetch, unacked,
                   crashes, stopTok, stopping, clientVars, accepted, acked>>

\* on_request, lines 23-30: basic_publish of the reply
PublishReply(s) ==
    /\ spc[s] = "returned"
    /\ LET env == ReplyEnvelope(Current(s), Invoke(func, BodyDict(s)).val)
       IN  /\ replyq' = [replyq EXCEPT ![env.reply_to] =
                                          Route(@, cq[env.reply_to], env)]
           /\ replies' = replies \cup {env}
    /\ spc' = [spc EXCEPT ![s] = "replied"]
    /\ UNCHANGED <<otherVars, fleet, func, qexists, workq, registered, prefetch, unacked, crashes,
                   stopTok, stopping, clientVars, accepted, acked>>

\* on_request, line 32: basic_ack, then back to the consume loop, which
\* ends when no consumer is left
Ack(s) ==
    /\ spc[s] = "replied"
    /\ acked' = acked \cup {Current(s).correlation_id}
    /\ unacked' = [unacked EXCEPT ![s] = Tail(@)]
    /\ spc' = [spc EXCEPT ![s] = IF registered[s] THEN "consuming" ELSE "stopped"]
    /\ UNCHANGED <<otherVars, fleet, func, qexists, workq, registered, prefetch, crashes, stopTok,
                   stopping, replyq, clientVars, accepted, replies>>

\* deliveries of s that no callback has been started for
Pending(s) == IF spc[s] = "consuming" THEN unacked[s] ELSE Tail(unacked[s])

\* RPCServer.stop_consuming is entered: start_consuming blocks the server's
\* thread, so the call comes from another thread (tests/test_rpc.py, lines 26
\* and 35).  channel.stop_consuming rejects with requeue the deliveries not
\* yet dispatched and cancels the consumer, then waits for the broker's
\* confirmation; a running on_request is left alone.
StopConsuming(s) ==
    /\ registered[s]
    /\ spc[s] \in {"consuming", "handling", "returned", "replied"}
    /\ registered' = [registered EXCEPT ![s] = FALSE]
    /\ workq' = Requeue(Pending(s), workq)
    /\ unacked' = [unacked EXCEPT ![s] =
                      IF spc[s] = "consuming" THEN <<>> ELSE <<Head(@)>>]
    /\ stopTok' = [stopTok EXCEPT ![s] =
                      IF spc[s] = "handling" THEN Current(s).correlation_id
                      ELSE NoCorr]
    /\ stopping' = [stopping EXCEPT ![s] = TRUE]
    /\ UNCHANGED <<otherVars, fleet, func, qexists, prefetch, spc, crashes,
                   replyq, clientVars, accepted, acked, replies>>

\* RPCServer.stop_consuming returns: the consumer is gone, and an idle
\* consume loop finds no consumer left and ends
StopReturns(s) ==
    /\ stopping[s]
    /\ stopping' = [stopping EXCEPT ![s] = FALSE]
    /\ spc' = [spc EXCEPT ![s] = IF @ = "consuming" THEN "stopped" ELSE @]
    /\ UNCHANGED <<otherVars, fleet, func, qexists, workq, registered, prefetch, unacked,
                   crashes, stopTok, replyq, clientVars, accepted, acked, replies>>

\* while stop_consuming is still waiting, the server's thread is itself inside
\* the connection (in the consume loop, in basic_publish or in basic_ack): two
\* threads use one BlockingConnection without synchronisation.  Besides going
\* well, the server thread's operation can fail: the exception leaves
\* start_consuming with nothing further published or acknowledged.
StopRace(s) ==
    /\ stopping[s]
    /\ spc[s] \in {"consuming", "returned", "replied"}
    /\ stopping' = [stopping EXCEPT ![s] = FALSE]
    /\ spc' = [spc EXCEPT ![s] = "broken"]
    /\ UNCHANGED <<otherVars, fleet, func, qexists, workq, registered, prefetch, unacked,
                   crashes, stopTok, replyq, clientVars, accepted, acked, replies>>

\* the server's connection is lost (process killed, or the connection of a
\* dead consume loop closed): the broker requeues its unacknowledged deliveries
ServerCrash(s) ==
    /\ spc[s] \notin {"absent", "down"}
    /\ crashes < MaxCrashes
    /\ crashes' = crashes + 1
    /\ workq' = Requeue(unacked[s], workq)
    /\ unacked' = [unacked EXCEPT ![s] = <<>>]
    /\ registered' = [registered EXCEPT ![s] = FALSE]
    /\ prefetch' = [prefetch EXCEPT ![s] = 0]
    /\ spc' = [spc EXCEPT ![s] = "down"]
    /\ stopping' = [stopping EXCEPT ![s] = FALSE]
    /\ UNCHANGED <<otherVars, fleet, func, qexists, stopTok,
                   replyq, clientVars, accepted, acked, replies>>

\* ----------------------------------------------------------- RPCClient
\* a callback that stores every reply, whatever its token
on_response_any(resp, corr, env) == Some(env.body)

\* RPCClient.on_response
on_response(resp, corr, env) ==
    IF corr = env.correlation_id THEN Some(env.body) ELSE resp

\* the callbacks of one process_data_events slice, in arrival order
RECURSIVE Dispatched(_, _, _)
Dispatched(resp, corr, msgs) ==
    IF msgs = <<>> THEN resp
    ELSE Dispatched(on_response(resp, corr, Head(msgs)), corr, Tail(msgs))

\* number of envelopes of msgs that carry token corr
RECURSIVE Matches(_, _)
Matches(corr, msgs) ==
    IF msgs = <<>> THEN 0
    ELSE (IF Head(msgs).correlation_id = corr THEN 1 ELSE 0)
         + Matches(corr, Tail(msgs))

\* a loop that stops after one slice, reply or not
LoopExitsAlways(resp) == TRUE

\* RPCClient.call, line 43: the loop ends when self.response is not None
LoopExits(resp) == resp # None

\* RPCClient.call, lines 31-41 and the first test of the while loop
Call(c, m, t) ==
    /\ cpc[c] \in {"idle", "returned"}
    /\ nextTok <= MaxCalls
    /\ response' = [response EXCEPT ![c] = None]
    /\ corr_id' = [corr_id EXCEPT ![c] = nextTok]
    /\ nextTok' = nextTok + 1
    /\ workq' = Route(workq, qexists,
                      [body           |-> EncodeBody(m),
                       reply_to       |-> c,
                       correlation_id |-> nextTok])
    /\ accepted' = IF qexists THEN accepted \cup {nextTok} ELSE accepted
    /\ sent' = Append(sent, [msg |-> m, client |-> c])
    /\ recorded' = Append(recorded, 0)
    /\ timeout' = [timeout EXCEPT ![c] = t]
    /\ elapsed' = [elapsed EXCEPT ![c] = 0]
    /\ cpc' = [cpc EXCEPT ![c] = "waiting"]
    /\ result' = [result EXCEPT ![c] = None]
    /\ UNCHANGED <<otherVars, fleet, func, qexists, serverVars, replyq, acked, replies>>

\* RPCClient.call, lines 43-46: one process_data_events slice that dispatches
\* the first k buffered replies, then the loop test and the return
Pump(c, k) ==
    /\ cpc[c] = "waiting"
    /\ k \in 1..Len(replyq[c])
    /\ LET msgs == SubSeq(replyq[c], 1, k)
           resp == Dispatched(response[c], corr_id[c], msgs)
       IN  /\ response' = [response EXCEPT ![c] = resp]
           /\ replyq' = [replyq EXCEPT ![c] = SubSeq(@, k + 1, Len(@))]
           /\ recorded' = [recorded EXCEPT ![corr_id[c]] =
                              @ + Matches(corr_id[c], msgs)]
           /\ IF LoopExits(resp)
              THEN /\ cpc' = [cpc EXCEPT ![c] = "returned"]
                   /\ result' = [result EXCEPT ![c] = resp]
                   /\ elapsed' = [elapsed EXCEPT ![c] = 0]
              ELSE UNCHANGED <<cpc, result, elapsed>>
    /\ UNCHANGED <<otherVars, fleet, func, qexists, workq, serverVars, corr_id, timeout,
                   nextTok, sent, accepted, acked, replies>>

\* RPCClient.call, lines 43-44: a slice that ends at time_limit because no
\* reply arrived; the loop test finds self.response None and pumps again
PumpExpire(c) ==
    /\ cpc[c] = "waiting"
    /\ timeout[c] # NoTimeout
    /\ replyq[c] = <<>>
    /\ elapsed[c] < MaxSlices * timeout[c]
    /\ elapsed' = [elapsed EXCEPT ![c] = @ + timeout[c]]
    /\ UNCHANGED <<otherVars, fleet, func, qexists, workq, serverVars, replyq, cpc, corr_id,
                   response, timeout, result, nextTok, sent, recorded,
                   accepted, acked, replies>>

\* ------------------------------------------------- lifetime of a client
\* the caller leaves call by an exception that is not the call's own (an
\* interrupt raised inside process_data_events): the while loop has no
\* handler, self.corr_id and self.response stay as they are
Abandon(c) ==
    /\ cpc[c] = "waiting"
    /\ cpc' = [cpc EXCEPT ![c] = "idle"]
    /\ UNCHANGED <<otherVars, fleet, func, qexists, workq, serverVars, replyq, corr_id,
                   response, timeout, elapsed, result, nextTok, sent, recorded,
                   accepted, acked, replies>>

\* the client's connection closes (its process ends): the broker deletes the
\* queue declared with exclusive=True and what it holds
ClientExit(c) ==
    /\ cq[c]
    /\ cq' = [cq EXCEPT ![c] = FALSE]
    /\ replyq' = [replyq EXCEPT ![c] = <<>>]
    /\ cpc' = [cpc EXCEPT ![c] = "gone"]
    /\ UNCHANGED <<closed, restarts, threadVars, bucketVars, fleet, func, qexists, workq, serverVars, corr_id,
                   response, timeout, elapsed, result, nextTok, sent, recorded,
                   accepted, acked, replies>>

\* client.close(): class RPCClient defines __init__, on_response and call
\* only, so the attribute lookup raises AttributeError; the connection stays
\* open and the reply queue stays declared
Close(c) ==
    /\ cq[c]
    /\ ~closed[c]
    /\ cpc[c] \in {"idle", "returned"}
    /\ closed' = [closed EXCEPT ![c] = TRUE]
    /\ UNCHANGED <<cq, restarts, threadVars, bucketVars, fleet, func, qexists, workq, serverVars, replyq,
                   clientVars, accepted, acked, replies>>

\* ------------------------------------------------------- broker restart
\* queue_declare(queue=self.queue) leaves durable at its default
QueueDurable == FALSE

\* basic_publish sets no delivery_mode: requests are transient
RequestsPersistent == FALSE

\* the broker restarts: every connection is lost, exclusive queues go with
\* their connections, and only durable queues and the persistent messages in
\* them are still there afterwards
BrokerRestart ==
    /\ restarts < MaxRestarts
    /\ restarts' = restarts + 1
    /\ qexists' = (qexists /\ QueueDurable)
    /\ workq' = IF QueueDurable /\ RequestsPersistent
                THEN Requeue(UnackedAll, workq) ELSE <<>>
    /\ unacked' = [s \in Servers |-> <<>>]
    /\ registered' = [s \in Servers |-> FALSE]
    /\ prefetch' = [s \in Servers |-> 0]
    /\ spc' = [s \in Servers |-> IF spc[s] = "absent" THEN "absent" ELSE "down"]
    /\ stopping' = [s \in Servers |-> FALSE]
    /\ cq' = [c \in Clients |-> FALSE]
    /\ replyq' = [c \in Clients |-> <<>>]
    /\ cpc' = [c \in Clients |-> "gone"]
    /\ UNCHANGED <<closed, threadVars, bucketVars, fleet, func, crashes, stopTok, corr_id, response, timeout,
                   elapsed, result, nextTok, sent, recorded, accepted, acked, replies>>

\* --------------------------------- two threads calling on one instance
\* RPCClient.call, line 31, run by thread t
TReset(t) ==
    /\ tpc[t] = "idle"
    /\ nextTok <= MaxCalls
    /\ response' = [response EXCEPT ![Shared] = None]
    /\ tpc' = [tpc EXCEPT ![t] = "reset"]
    /\ UNCHANGED <<cq, closed, restarts, bucketVars, ttok, tres, fleet, func, qexists, workq,
                   serverVars, replyq, cpc, corr_id, timeout, elapsed, result,
                   nextTok, sent, recorded, accepted, acked, replies>>

\* a call that leaves the token of a call still waiting in place
TMintPublishKeep(t, m) ==
    /\ tpc[t] = "reset"
    /\ nextTok <= MaxCalls
    /\ corr_id' = IF \E u \in Threads : tpc[u] = "waiting"
                  THEN corr_id ELSE [corr_id EXCEPT ![Shared] = nextTok]
    /\ ttok' = [ttok EXCEPT ![t] = nextTok]
    /\ nextTok' = nextTok + 1
    /\ workq' = Route(workq, qexists,
                      [body           |-> EncodeBody(m),
                       reply_to       |-> Shared,
                       correlation_id |-> nextTok])
    /\ accepted' = IF qexists THEN accepted \cup {nextTok} ELSE accepted
    /\ sent' = Append(sent, [msg |-> m, client |-> Shared])
    /\ recorded' = Append(recorded, 0)
    /\ tpc' = [tpc EXCEPT ![t] = "waiting"]
    /\ UNCHANGED <<cq, closed, restarts, bucketVars, tres, fleet, func, qexists, serverVars,
                   replyq, cpc, response, timeout, elapsed, result, acked, replies>>

\* RPCClient.call, lines 32-41, run by thread t: mint the token into
\* self.corr_id and publish the request
TMintPublish(t, m) ==
    /\ tpc[t] = "reset"
    /\ nextTok <= MaxCalls
    /\ corr_id' = [corr_id EXCEPT ![Shared] = nextTok]
    /\ ttok' = [ttok EXCEPT ![t] = nextTok]
    /\ nextTok' = nextTok + 1
    /\ workq' = Route(workq, qexists,
                      [body           |-> EncodeBody(m),
                       reply_to       |-> Shared,
                       correlation_id |-> nextTok])
    /\ accepted' = IF qexists THEN accepted \cup {nextTok} ELSE accepted
    /\ sent' = Append(sent, [msg |-> m, client |-> Shared])
    /\ recorded' = Append(recorded, 0)
    /\ tpc' = [tpc EXCEPT ![t] = "waiting"]
    /\ UNCHANGED <<cq, closed, restarts, bucketVars, tres, fleet, func, qexists, serverVars,
                   replyq, cpc, response, timeout, elapsed, result, acked, replies>>

\* RPCClient.call, line 44, run by thread t: one process_data_events slice
\* that dispatches the first k buffered replies to on_response
TPump(t, k) ==
    /\ tpc[t] = "waiting"
    /\ k \in 1..Len(replyq[Shared])
    /\ LET msgs == SubSeq(replyq[Shared], 1, k)
       IN  /\ response' = [response EXCEPT ![Shared] =
                              Dispatched(@, corr_id[Shared], msgs)]
           /\ replyq' = [replyq EXCEPT ![Shared] = SubSeq(@, k + 1, Len(@))]
           /\ recorded' = [recorded EXCEPT ![corr_id[Shared]] =
                              @ + Matches(corr_id[Shared], msgs)]
    /\ UNCHANGED <<otherVars, fleet, func, qexists, workq, serverVars, cpc, corr_id,
                   timeout, elapsed, result, nextTok, sent, accepted, acked, replies>>

TPumpSome(t) == \E k \in 1..Len(replyq[Shared]) : TPump(t, k)

\* RPCClient.call, lines 43 and 46, run by thread t: the loop test finds
\* self.response set and the call returns it
TLoopExit(t) ==
    /\ tpc[t] = "waiting"
    /\ LoopExits(response[Shared])
    /\ tpc' = [tpc EXCEPT ![t] = "returned"]
    /\ tres' = [tres EXCEPT ![t] = response[Shared]]
    /\ UNCHANGED <<cq, closed, restarts, bucketVars, ttok, fleet, func, qexists, workq, serverVars,
                   replyq, clientVars, accepted, acked, replies>>

\* --------------------------------------------------- storage adapters
rpcVars == <<fleet, func, qexists, workq, serverVars, replyq, clientVars,
             accepted, acked, replies, cq, closed, restarts, threadVars>>

IsPrefix(pre, k) == Len(pre) <= Len(k) /\ SubSeq(k, 1, Len(pre)) = pre

\* the item is wrapped, but the stream is left at its end
AsStreamAtEnd(item) ==
    IF item.kind = "bytes"
    THEN [kind |-> "stream", data |-> item.data, pos |-> Len(item.data)]
    ELSE item

\* upload_item: if isinstance(item, bytes): item = io.BytesIO(item)
AsStream(item) == IF item.kind = "bytes" THEN BytesIO(item.data) ELSE item

\* what a reader of the stream gets: the bytes from its position on
ReadRest(stream) == SubSeq(stream.data, stream.pos + 1, Len(stream.data))

\* put_object stores what it reads from the body
VendorPut(st, k, body) == [st EXCEPT ![k] = Obj(ReadRest(body))]

\* the responses of get_object: boto3 gives a stream under "Body", oci the
\* bytes under data.content
S3Get(st, k) == [Body |-> BytesIO(st[k].data)]
OciGet(st, k) == [data |-> [content |-> st[k].data]]

\* the keys under a prefix, by name
UnderPrefix(st, pre) ==
    LET Test(k) == st[k].present /\ IsPrefix(pre, k)
    IN  SelectSeq(Keys, Test)

\* one list call without continuation: the first page only
FirstPage(ks) == SubSeq(ks, 1, IF Len(ks) < PageLimit THEN Len(ks) ELSE PageLimit)

\* what list_objects_v2 / list_objects return to list_folder
Listed(st, pre) == FirstPage(UnderPrefix(st, pre))

\* st without the objects named in ks
Without(st, ks) ==
    [k \in KeySet |-> IF \E i \in 1..Len(ks) : ks[i] = k THEN NoObject ELSE st[k]]

BucketStep(st, lf, lu, out) ==
    /\ store' = st
    /\ localf' = lf
    /\ lastUp' = lu
    /\ bret' = out
    /\ UNCHANGED <<provider, made, rpcVars>>

\* upload_item of both services; fails: the vendor call raises
UploadItem(k, item, fails) ==
    IF fails
    THEN BucketStep(store, localf, lastUp, VendorRaised(provider, "upload_item", k, 1))
    ELSE BucketStep(VendorPut(store, k, AsStream(item)), localf,
                    [lastUp EXCEPT ![k] = Obj(item.data)],
                    Returned("upload_item", k, 1, <<>>, <<>>))

\* upload_file: S3Bucket hands the file name to client.upload_file; OCIBucket
\* opens the file with mode "rb" and an encoding, which open() rejects with
\* ValueError before any vendor call
UploadFile(k, fails) ==
    IF provider = "OCI"
    THEN BucketStep(store, localf, lastUp, VendorRaised("OCI", "upload_file", k, 0))
    ELSE IF fails \/ ~localf.present
         THEN BucketStep(store, localf, lastUp,
                         VendorRaised("AWS", "upload_file", k, 1))
         ELSE BucketStep([store EXCEPT ![k] = Obj(localf.data)], localf,
                         [lastUp EXCEPT ![k] = NoObject],
                         Returned("upload_file", k, 1, <<>>, <<>>))

\* delete_file: delete_object; S3 answers a delete of a missing key with
\* success, OCI with an error
DeleteFile(k, fails) ==
    IF fails \/ (provider = "OCI" /\ ~store[k].present)
    THEN BucketStep(store, localf, lastUp, VendorRaised(provider, "delete_file", k, 1))
    ELSE BucketStep([store EXCEPT ![k] = NoObject], localf,
                    [lastUp EXCEPT ![k] = NoObject],
                    Returned("delete_file", k, 1, <<>>, <<>>))

\* read_file: get_object, then response["Body"].read() or response.data.content
ReadFile(k, fails) ==
    IF fails \/ ~store[k].present
    THEN BucketStep(store, localf, lastUp, VendorRaised(provider, "read_file", k, 1))
    ELSE BucketStep(store, localf, lastUp,
                    Returned("read_file", k, 1,
                             IF provider = "AWS" THEN ReadRest(S3Get(store, k).Body)
                             ELSE OciGet(store, k).data.content,
                             <<>>))

\* list_folder: one list call, the names of what it returned
ListFolder(pre, fails) ==
    IF fails
    THEN BucketStep(store, localf, lastUp, VendorRaised(provider, "list_folder", pre, 1))
    ELSE BucketStep(store, localf, lastUp,
                    Returned("list_folder", pre, 1, <<>>, Listed(store, pre)))

\* generate_url: S3Bucket signs locally with generate_presigned_url;
\* OCIBucket creates a pre-authenticated request at the vendor
GenerateUrl(k, fails) ==
    IF fails /\ provider = "OCI"
    THEN BucketStep(store, localf, lastUp, VendorRaised("OCI", "generate_url", k, 1))
    ELSE BucketStep(store, localf, lastUp,
                    Returned("generate_url", k, 1, <<>>, <<k>>))

\* download_file: fetch the object and write it to the local path
DownloadFile(k, fails) ==
    IF fails \/ ~store[k].present
    THEN BucketStep(store, localf, lastUp,
                    VendorRaised(provider, "download_file", k, 1))
    ELSE BucketStep(store, Obj(store[k].data), lastUp,
                    Returned("download_file", k, 1, <<>>, <<>>))

\* delete_folder: list_folder, then S3Bucket one delete_objects for the
\* listed keys, OCIBucket one delete_object per listed key; n of the listed
\* keys are deleted before a vendor call raises (S3: all or none)
DeleteFolder(pre, fails, n) ==
    LET objs == Listed(store, pre)
        gone == SubSeq(objs, 1, n)
    IN  IF fails
        THEN /\ n = 0
             /\ BucketStep(store, localf, lastUp,
                           VendorRaised(provider, "delete_folder", pre, 1))
        ELSE /\ n \in 0..Len(objs)
             /\ provider = "AWS" => n \in {0, Len(objs)}
             /\ BucketStep(Without(store, gone), localf,
                           [k \in KeySet |-> Without(lastUp, gone)[k]],
                           IF n = Len(objs)
                           THEN Returned("delete_folder", pre,
                                         IF provider = "AWS"
                                         THEN (IF objs = <<>> THEN 1 ELSE 2)
                                         ELSE 1 + Len(objs),
                                         <<>>, <<>>)
                           ELSE VendorRaised(provider, "delete_folder", pre,
                                             IF provider = "AWS" THEN 2 ELSE 2 + n))

\* ------------------------------------------------------ Bucket.__init__
\* no parameter is checked
MissingKeysLax(prov, args, env) == {}

\* kwargs.setdefault(key, os.getenv(...)) fills a key only when it was not
\* passed at all; missing_keys are the keys whose value is then None or empty
MissingKeys(prov, args, env) ==
    {k \in RequiredKeys(prov) :
        args[k] = "none" \/ (args[k] = "absent" /\ k \notin env)}

\* keys given neither by an argument nor by the environment
AbsentBoth(prov, args, env) ==
    {k \in RequiredKeys(prov) : args[k] # "given" /\ k \notin env}

\* Bucket(bucket=name, provider=prov, **args) in environment env; inOci: the
\* instance metadata endpoint answers 200; fails: the service constructor
\* (vendor client, namespace lookup) raises
Construct(name, prov, args, env, inOci, fails) ==
    /\ ~made.done
    /\ LET instance == prov = "OCI" /\ inOci
           checked  == prov \in Providers /\ ~instance
           rejected == prov \notin Providers
                          \/ (checked /\ MissingKeys(prov, args, env) # {})
           base == [done |-> TRUE, name |-> name, prov |-> prov,
                    absentBoth |-> AbsentBoth(prov, args, env),
                    instance |-> instance, raised |-> "none", services |-> {},
                    signer |-> FALSE, bucket |-> ""]
       IN  IF rejected
           THEN /\ made' = [base EXCEPT !.raised = "ValueError"]
                /\ UNCHANGED provider
           ELSE IF fails
                THEN /\ made' = [base EXCEPT
                                   !.raised = IF prov = "OCI" THEN "RuntimeError"
                                              ELSE "ClientError",
                                   !.services = {prov},
                                   !.signer = instance]
                     /\ UNCHANGED provider
                ELSE /\ made' = [base EXCEPT !.services = {prov},
                                             !.signer = instance,
                                             !.bucket = name]
                     /\ provider' = prov
    /\ UNCHANGED <<store, localf, lastUp, bret, rpcVars>>

\* the Bucket exists and delegates to its service
Built == made.done /\ made.raised = "none"

\* a slice that dispatches some of the buffered replies
PumpSome(c) == \E k \in 1..Len(replyq[c]) : Pump(c, k)

\* ------------------------------------------------------ specification
Next ==
    \/ \E s \in Servers : ServerInit(s)
    \/ \E s \in Servers : StartConsuming(s)
    \/ \E s \in Servers : BrokerDeliver(s)
    \/ \E s \in Servers : OnRequestBegin(s)
    \/ \E s \in Servers : HandlerEnd(s)
    \/ \E s \in Servers : PublishReply(s)
    \/ \E s \in Servers : Ack(s)
    \/ \E s \in Servers : StopConsuming(s)
    \/ \E s \in Servers : StopReturns(s)
    \/ \E s \in Servers : StopRace(s)
    \/ \E s \in Servers : ServerCrash(s)
    \/ \E c \in Clients, m \in Messages : Call(c, m, NoTimeout)
    \/ \E c \in Clients : PumpSome(c)

\* callers that leave timeout at its default
Spec == Init /\ [][Next]_vars

TimedNext ==
    \/ \E s \in Servers : ServerInit(s)
    \/ \E s \in Servers : StartConsuming(s)
    \/ \E s \in Servers : BrokerDeliver(s)
    \/ \E s \in Servers : OnRequestBegin(s)
    \/ \E s \in Servers : HandlerEnd(s)
    \/ \E s \in Servers : PublishReply(s)
    \/ \E s \in Servers : Ack(s)
    \/ \E s \in Servers : ServerCrash(s)
    \/ \E c \in Clients, m \in Messages : Call(c, m, NoTimeout)
    \/ \E c \in Clients : PumpSome(c)
    \/ \E c \in Clients, m \in Messages, t \in FiniteTimeouts : Call(c, m, t)
    \/ \E c \in Clients : PumpExpire(c)

\* callers that may also pass a timeout, servers that run until they are lost
TimedSpec == Init /\ [][TimedNext]_vars

TypeOK ==
    /\ fleet \subseteq Servers
    /\ func \in Handlers
    /\ qexists \in BOOLEAN
    /\ nextTok \in 1..MaxCalls + 1
    /\ \A s \in Servers : spc[s] \in {"absent", "idle", "consuming", "handling",
                                     "returned", "replied", "failed", "broken",
                                     "stopped", "down"}
    /\ \A c \in Clients : cpc[c] \in {"idle", "waiting", "returned", "gone"}

\* a deployment without faults in which every call is one a consuming server
\* can answer: the function returns normally on the arguments it will get
JsonImage(m) == [f \in DOMAIN m |-> PyOf(JsonOf(m[f]))]

CallServed(c, m) ==
    /\ \E s \in Servers : registered[s]
    /\ ApplyHandler(func, JsonImage(m)).ok
    /\ Call(c, m, NoTimeout)

ServerStep(s) ==
    \/ StartConsuming(s)
    \/ BrokerDeliver(s)
    \/ OnRequestBegin(s)
    \/ HandlerEnd(s)
    \/ PublishReply(s)
    \/ Ack(s)

LiveNext ==
    \/ \E s \in Servers : ServerInit(s)
    \/ \E s \in Servers : StartConsuming(s)
    \/ \E s \in Servers : BrokerDeliver(s)
    \/ \E s \in Servers : OnRequestBegin(s)
    \/ \E s \in Servers : HandlerEnd(s)
    \/ \E s \in Servers : PublishReply(s)
    \/ \E s \in Servers : Ack(s)
    \/ \E c \in Clients, m \in Messages : CallServed(c, m)
    \/ \E c \in Clients : PumpSome(c)

\* the server thread and the caller's pump loop keep running
LiveSpec ==
    /\ Init
    /\ [][LiveNext]_vars
    /\ \A s \in Servers : WF_vars(ServerStep(s))
    /\ \A c \in Clients : WF_vars(PumpSome(c))

\* clients that give up, end or are asked to close, next to servers that
\* run until they are lost
LifeNext ==
    \/ \E s \in Servers : ServerInit(s)
    \/ \E s \in Servers : StartConsuming(s)
    \/ \E s \in Servers : BrokerDeliver(s)
    \/ \E s \in Servers : OnRequestBegin(s)
    \/ \E s \in Servers : HandlerEnd(s)
    \/ \E s \in Servers : PublishReply(s)
    \/ \E s \in Servers : Ack(s)
    \/ \E s \in Servers : ServerCrash(s)
    \/ \E c \in Clients, m \in Messages : Call(c, m, NoTimeout)
    \/ \E c \in Clients : PumpSome(c)
    \/ \E c \in Clients : Abandon(c)
    \/ \E c \in Clients : ClientExit(c)
    \/ \E c \in Clients : Close(c)

LifeSpec == Init /\ [][LifeNext]_vars

\* callers that give up a call and call again, next to servers that run
\* until they are lost
AbandonNext ==
    \/ \E s \in Servers : ServerInit(s)
    \/ \E s \in Servers : StartConsuming(s)
    \/ \E s \in Servers : BrokerDeliver(s)
    \/ \E s \in Servers : OnRequestBegin(s)
    \/ \E s \in Servers : HandlerEnd(s)
    \/ \E s \in Servers : PublishReply(s)
    \/ \E s \in Servers : Ack(s)
    \/ \E s \in Servers : ServerCrash(s)
    \/ \E c \in Clients, m \in Messages : Call(c, m, NoTimeout)
    \/ \E c \in Clients : PumpSome(c)
    \/ \E c \in Clients : Abandon(c)

AbandonSpec == Init /\ [][AbandonNext]_vars

\* a call made once a server consumes the work queue, as in the test fixture
CallConsumed(c, m) ==
    /\ \E s \in Servers : registered[s]
    /\ Call(c, m, NoTimeout)

\* clients that give up or end, next to a server thread that keeps running
GoneNext ==
    \/ \E s \in Servers : ServerInit(s)
    \/ \E s \in Servers : StartConsuming(s)
    \/ \E s \in Servers : BrokerDeliver(s)
    \/ \E s \in Servers : OnRequestBegin(s)
    \/ \E s \in Servers : HandlerEnd(s)
    \/ \E s \in Servers : PublishReply(s)
    \/ \E s \in Servers : Ack(s)
    \/ \E c \in Clients, m \in Messages : CallConsumed(c, m)
    \/ \E c \in Clients : PumpSome(c)
    \/ \E c \in Clients : Abandon(c)
    \/ \E c \in Clients : ClientExit(c)

GoneSpec ==
    /\ Init
    /\ [][GoneNext]_vars
    /\ \A s \in Servers : WF_vars(ServerStep(s))

\* a broker that may restart under running clients and servers
RestartNext ==
    \/ \E s \in Servers : ServerInit(s)
    \/ \E s \in Servers : StartConsuming(s)
    \/ \E s \in Servers : BrokerDeliver(s)
    \/ \E s \in Servers : OnRequestBegin(s)
    \/ \E s \in Servers : HandlerEnd(s)
    \/ \E s \in Servers : PublishReply(s)
    \/ \E s \in Servers : Ack(s)
    \/ \E c \in Clients, m \in Messages : Call(c, m, NoTimeout)
    \/ \E c \in Clients : PumpSome(c)
    \/ BrokerRestart

RestartSpec == Init /\ [][RestartNext]_vars

\* two threads of one process share an RPCClient instance
SharedNext ==
    \/ \E s \in Servers : ServerInit(s)
    \/ \E s \in Servers : StartConsuming(s)
    \/ \E s \in Servers : BrokerDeliver(s)
    \/ \E s \in Servers : OnRequestBegin(s)
    \/ \E s \in Servers : HandlerEnd(s)
    \/ \E s \in Servers : PublishReply(s)
    \/ \E s \in Servers : Ack(s)
    \/ \E t \in Threads : TReset(t)
    \/ \E t \in Threads, m \in Messages : TMintPublish(t, m)
    \/ \E t \in Threads : TPumpSome(t)
    \/ \E t \in Threads : TLoopExit(t)

SharedSpec == Init /\ [][SharedNext]_vars

\* a Bucket of either provider, used by one caller
BucketInit ==
    /\ RpcInit({})
    /\ func = "add"
    /\ provider \in Providers
    /\ store = [k \in KeySet |-> NoObject]
    /\ localf \in {NoObject, Obj(<<1>>)}
    /\ lastUp = [k \in KeySet |-> NoObject]
    /\ bret = NoOutcome
    /\ made = NotMade

BucketNext ==
    \/ \E k \in KeySet, item \in Items, f \in BOOLEAN : UploadItem(k, item, f)
    \/ \E k \in KeySet, f \in BOOLEAN : UploadFile(k, f)
    \/ \E k \in KeySet, f \in BOOLEAN : DeleteFile(k, f)
    \/ \E k \in KeySet, f \in BOOLEAN : ReadFile(k, f)
    \/ \E pre \in Prefixes, f \in BOOLEAN : ListFolder(pre, f)
    \/ \E k \in KeySet, f \in BOOLEAN : GenerateUrl(k, f)
    \/ \E k \in KeySet, f \in BOOLEAN : DownloadFile(k, f)
    \/ \E pre \in Prefixes, f \in BOOLEAN, n \in 0..Len(Keys) : DeleteFolder(pre, f, n)

BucketSpec == BucketInit /\ [][BucketNext]_vars

\* two servers consume the same work queue, without faults
FleetInit == InitWith(Servers)

FleetSpec ==
    /\ FleetInit
    /\ [][LiveNext]_vars
    /\ \A s \in Servers : WF_vars(ServerStep(s))
    /\ \A c \in Clients : WF_vars(PumpSome(c))

\* a Bucket is constructed and, when that succeeds, used on one key
ConstructInit == RpcInit({}) /\ func = "add" /\ BucketIdle

UsedKey == <<"a">>

ConstructNext ==
    \/ ~made.done /\
          \E name \in BucketNames, prov \in ProviderArgs, inOci \in BOOLEAN,
             fails \in BOOLEAN :
             \E env \in SUBSET RequiredKeys(prov),
                args \in [RequiredKeys(prov) -> ArgStates] :
                 Construct(name, prov, args, env, inOci, fails)
    \/ Built /\ \E item \in Items, f \in BOOLEAN : UploadItem(UsedKey, item, f)
    \/ Built /\ \E f \in BOOLEAN : UploadFile(UsedKey, f)
    \/ Built /\ \E f \in BOOLEAN : DeleteFile(UsedKey, f)
    \/ Built /\ \E f \in BOOLEAN : ReadFile(UsedKey, f)
    \/ Built /\ \E f \in BOOLEAN : ListFolder(UsedKey, f)
    \/ Built /\ \E f \in BOOLEAN : GenerateUrl(UsedKey, f)
    \/ Built /\ \E f \in BOOLEAN : DownloadFile(UsedKey, f)
    \/ Built /\ \E f \in BOOLEAN, n \in 0..1 : DeleteFolder(UsedKey, f, n)

ConstructSpec == ConstructInit /\ [][ConstructNext]_vars

\* ------------------------------------------------------------ helpers
SeqRange(q) == {q[i] : i \in 1..Len(q)}

\* request envelopes the broker holds, ready or unacknowledged
Requests == SeqRange(workq) \cup UNION {SeqRange(unacked[s]) : s \in Servers}

TokensOf(envs) == {e.correlation_id : e \in envs}

\* the Message of the call client c is in, or has returned from
MsgOf(c) == sent[corr_id[c]].msg

\* the reply the server computes from the request that carries token tok
ReplyFor(tok) == Str(Invoke(func, DecodeBody(EncodeBody(sent[tok].msg))).val)

\* =============================================================== claims

\* C1 (as stated): a call that returned has returned str(h(**fields(m))),
\* the function applied to the field values the Message was built with.
C1_ReturnsHandlerOfFields ==
    \A c \in Clients :
        (cpc[c] = "returned" /\ ApplyHandler(func, MsgOf(c)).ok)
            => result[c] = Some(Str(ApplyHandler(func, MsgOf(c)).val))

\* C1 (amended): with a server consuming the queue and a function that returns
\* normally, every call eventually returns, and what it returns is str of the
\* function applied to the fields as JSON carries them (a tuple arrives as a
\* list; int fields arrive unchanged, so {x:1, y:2} with add returns "3").
C1_ReturnsHandlerOfJsonFields ==
    /\ [](\A c \in Clients :
            cpc[c] = "returned"
                => result[c] = Some(Str(ApplyHandler(func, JsonImage(MsgOf(c))).val)))
    /\ \A c \in Clients : (cpc[c] = "waiting") ~> (cpc[c] = "returned")

C1_Witness ==
    \E c \in Clients :
        /\ cpc[c] = "returned"
        /\ func = "add"
        /\ MsgOf(c) = [x |-> PyInt(1), y |-> PyInt(2)]
        /\ result[c] = Some(<<"3">>)

\* C2: with two clients in flight on the same work queue, a call returns the
\* reply a server computed from its own request: the returned body is the
\* body of a published reply that carries the caller's token, is addressed to
\* the caller's queue, and was computed from the Message the caller sent.
C2_OwnReplyOnly ==
    \A c \in Clients :
        cpc[c] = "returned" =>
            /\ sent[corr_id[c]].client = c
            /\ result[c] = Some(ReplyFor(corr_id[c]))
            /\ \E e \in replies : /\ e.correlation_id = corr_id[c]
                                  /\ e.reply_to = c
                                  /\ Some(e.body) = result[c]

\* one client has its reply while the other, which called first, still waits,
\* and the two requests have different replies
C2_Witness ==
    \E c, d \in Clients :
        /\ c # d
        /\ cpc[c] = "returned"
        /\ cpc[d] = "waiting"
        /\ corr_id[d] < corr_id[c]
        /\ corr_id[d] \in accepted
        /\ ReplyFor(corr_id[c]) # ReplyFor(corr_id[d])

\* C3: a call with a finite timeout T on a queue no server ever consumed is
\* over (TimeoutError) once the elapsed wait exceeds T.
C3_TimeoutRaised ==
    \A c \in Clients :
        (/\ cpc[c] = "waiting"
         /\ timeout[c] # NoTimeout
         /\ \A s \in Servers : spc[s] = "absent")
            => elapsed[c] <= timeout[c]

\* C4: a server holds at most one unacknowledged delivery, so it never
\* starts the handler for a second request before acknowledging the first.
C4_OneUnacked ==
    \A s \in Servers :
        /\ Len(unacked[s]) <= 1
        /\ spc[s] \in {"handling", "returned", "replied"} => Len(unacked[s]) = 1

\* the handler runs while a second request waits in the work queue
C4_Witness ==
    \E s \in Servers : /\ spc[s] = "handling"
                       /\ registered[s]
                       /\ workq # <<>>

\* C5: the reply is published before the acknowledgement, and a request
\* leaves the broker only by being acknowledged: every request routed into
\* the work queue is ready, held unacknowledged, or acknowledged, whatever
\* crashes happened in between.
C5_NoLossBeforeAck ==
    /\ accepted \subseteq (TokensOf(Requests) \cup acked)
    /\ acked \subseteq TokensOf(replies)
    /\ acked \cap TokensOf(Requests) = {}
    /\ \A s \in Servers :
          spc[s] = "replied" => Current(s).correlation_id \in TokensOf(replies)

\* a server was lost after publishing a reply and before acknowledging: the
\* request is back in the work queue
C5_Witness ==
    /\ crashes > 0
    /\ \E e \in SeqRange(workq) : /\ e.correlation_id \in TokensOf(replies)
                                  /\ e.correlation_id \notin acked

\* C6 (as stated): the server's decode of the body on the wire is a mapping
\* equal, field for field, to the fields of the Message that was sent.
C6_RoundTripExact ==
    \A e \in Requests :
        /\ DecodeBody(e.body).kind = "dict"
        /\ DecodeBody(e.body).d = sent[e.correlation_id].msg

\* C6 (amended): the server's decode of the body on the wire is a mapping with
\* exactly the Message's field names; each value has the elements of the
\* Message's value, and its type too unless the Message's value is a tuple,
\* which comes back as a list.
C6_RoundTripJson ==
    \A e \in Requests :
        LET dec == DecodeBody(e.body)
            m   == sent[e.correlation_id].msg
        IN  /\ dec.kind = "dict"
            /\ DOMAIN dec.d = DOMAIN m
            /\ \A f \in DOMAIN m :
                  /\ dec.d[f].v = m[f].v
                  /\ dec.d[f].t = (IF m[f].t = "tuple" THEN "list" ELSE m[f].t)

\* the handler works on the decoded body of an all-int Message
C6_Witness ==
    \E s \in Servers :
        /\ spc[s] = "handling"
        /\ sent[Current(s).correlation_id].msg = [x |-> PyInt(1), y |-> PyInt(2)]
        /\ BodyDict(s).d = [x |-> PyInt(1), y |-> PyInt(2)]

C8_UnboundedWait ==
    \A c \in Clients :
        timeout[c] = NoTimeout =>
            /\ elapsed[c] = 0
            /\ cpc[c] = "returned" =>
                  /\ recorded[corr_id[c]] >= 1
                  /\ \E e \in replies : /\ e.correlation_id = corr_id[c]
                                        /\ result[c] = Some(e.body)

\* a second call of a client, with timeout None, has returned its own reply
\* after a server was lost
C8_Witness ==
    \E c \in Clients :
        /\ cpc[c] = "returned"
        /\ timeout[c] = NoTimeout
        /\ crashes > 0
        /\ recorded[corr_id[c]] >= 1
        /\ \E tok \in 1..Len(sent) : tok < corr_id[c] /\ sent[tok].client = c

\* C9: a token belongs to the instance that minted it, and no call has more
\* than one response stored for it.
C9_OneResponsePerCall ==
    /\ \A c \in Clients : corr_id[c] # NoCorr => sent[corr_id[c]].client = c
    /\ \A tok \in 1..Len(recorded) : recorded[tok] <= 1

\* C10: when the handler raises, no reply is published and the delivery is not
\* acknowledged, the consume loop is over, and the caller gets no reply.
C10_HandlerErrorNoReply ==
    /\ \A s \in Servers :
          spc[s] = "failed" =>
              /\ unacked[s] # <<>>
              /\ Current(s).correlation_id \notin acked
              /\ Current(s).correlation_id \notin TokensOf(replies)
    /\ \A c \in Clients :
          (cpc[c] # "idle" /\ ~Invoke(func, DecodeBody(EncodeBody(MsgOf(c)))).ok)
              => /\ cpc[c] = "waiting"
                 /\ response[c] = None
                 /\ corr_id[c] \notin TokensOf(SeqRange(replyq[c]))
                 /\ corr_id[c] \notin TokensOf(replies)

C10_Witness ==
    \E s \in Servers, c \in Clients :
        /\ spc[s] = "failed"
        /\ cpc[c] = "waiting"
        /\ corr_id[c] = Current(s).correlation_id

\* C11: the reply queue lives as long as the client's connection and is
\* private to the client; after close() the connection is released and the
\* queue is gone, so nothing published to its address is queued for anyone.
C11_CloseDestroysReplyQueue ==
    \A c \in Clients :
        /\ closed[c] => ~cq[c]
        /\ ~cq[c] => replyq[c] = <<>>
        /\ \A e \in SeqRange(replyq[c]) : e.reply_to = c

\* C15: the callback stores a reply only for the token of the call in
\* progress: a call that has returned has returned a stored reply (never
\* None) that a server published with the call's own token, and a reply with
\* another token (late, for a call given up earlier) is never what it returns.
C15_OnlyCurrentTokenRecorded ==
    \A c \in Clients :
        /\ response[c] # None
              => /\ recorded[corr_id[c]] >= 1
                 /\ \E e \in replies : /\ e.correlation_id = corr_id[c]
                                       /\ Some(e.body) = response[c]
        /\ cpc[c] = "returned"
              => /\ result[c] # None
                 /\ result[c] = response[c]
                 /\ result[c] = Some(ReplyFor(corr_id[c]))

\* a second call has returned its own reply after the reply to the client's
\* first call, which the caller gave up, was dispatched and discarded
C15_Witness ==
    \E c \in Clients :
        /\ cpc[c] = "returned"
        /\ \E tok \in 1..Len(sent) :
              /\ tok < corr_id[c]
              /\ sent[tok].client = c
              /\ tok \in TokensOf(replies)
              /\ tok \notin TokensOf(SeqRange(replyq[c]))
              /\ recorded[tok] = 0
              /\ ReplyFor(tok) # ReplyFor(corr_id[c])

C18_RequestRetained ==
    \A tok \in 1..Len(sent) : tok \in accepted

\* C19: the work queue a server declared, and the requests accumulated in
\* it, are still there after a broker restart; a consumer is registered only
\* on an existing queue and with the prefetch limit set.
C19_DurableWorkQueue ==
    /\ accepted \subseteq (TokensOf(Requests) \cup acked)
    /\ (\E s \in Servers : spc[s] # "absent") => qexists
    /\ \A s \in Servers : registered[s] => (qexists /\ prefetch[s] = QosPrefetch)

\* C20: the server fails only when the function raises, never because the
\* caller gave up or its reply queue is gone; an invocation that returns is
\* followed by the publish and the acknowledgement, whatever became of the
\* caller.
C20_ServerIgnoresCallerGone ==
    /\ [](\A s \in Servers :
            spc[s] = "failed" => ~Invoke(func, BodyDict(s)).ok)
    /\ [][\A s \in Servers :
            (spc[s] = "replied" /\ spc'[s] # "replied")
                => /\ spc'[s] = "consuming"
                   /\ Current(s).correlation_id \in acked'
                   /\ Current(s).correlation_id \in TokensOf(replies)]_vars
    /\ \A s \in Servers :
          (spc[s] = "handling" /\ Invoke(func, BodyDict(s)).ok)
              ~> (spc[s] = "consuming")

\* a request was answered and acknowledged, and the server is back in its
\* consume loop, although the caller's connection and reply queue are gone
C20_Witness ==
    \E tok \in acked :
        /\ ~cq[sent[tok].client]
        /\ tok \in TokensOf(replies)
        /\ \E s \in Servers : spc[s] = "consuming"

\* C16: the instance has one (corr_id, response) pair.  A call that starts
\* while another call on the instance is waiting overwrites it: line 31 sets
\* the shared response to None, lines 32-41 put a token never used before into
\* the shared corr_id, and from then on only a reply with that last token is
\* ever stored.
C16_SharedPairOverwritten ==
    [][ /\ \A t \in Threads :
              (tpc[t] = "idle" /\ tpc'[t] = "reset") => response'[Shared] = None
        /\ \A t \in Threads :
              (tpc[t] = "reset" /\ tpc'[t] = "waiting")
                  => /\ corr_id'[Shared] = ttok'[t]
                     /\ corr_id'[Shared] = Len(sent')
                     /\ \A u \in Threads \ {t} : ttok[u] # corr_id'[Shared]
        /\ (response'[Shared] # None /\ response'[Shared] # response[Shared])
              => response'[Shared] = Some(ReplyFor(Len(sent)))
      ]_vars

\* the first call's reply was dispatched and dropped, and the first call has
\* returned the reply to the second call, which differs from its own
C16_Witness ==
    \E t, u \in Threads :
        /\ ttok[t] # NoCorr
        /\ ttok[t] < ttok[u]
        /\ tpc[t] = "returned"
        /\ ttok[t] \in TokensOf(replies)
        /\ ttok[t] \notin TokensOf(SeqRange(replyq[Shared]))
        /\ recorded[ttok[t]] = 0
        /\ tres[t] = Some(ReplyFor(ttok[u]))
        /\ ReplyFor(ttok[u]) # ReplyFor(ttok[t])

\* C12: for either provider, a read_file that succeeds on a path returns
\* exactly the bytes given to the last successful upload_item on that path,
\* as long as no later upload or delete touched the path.
C12_UploadReadRoundTrip ==
    (bret.op = "read_file" /\ bret.ok /\ lastUp[bret.path].present)
        => bret.data = lastUp[bret.path].data

\* a read has returned the bytes upload_item was given, with another object
\* in the bucket
C12_Witness ==
    /\ bret.op = "read_file"
    /\ bret.ok
    /\ lastUp[bret.path].present
    /\ bret.data = <<2>>
    /\ \E k \in KeySet : k # bret.path /\ store[k].present

\* C13: list_folder(prefix) returns exactly the stored paths that start with
\* the prefix, however many there are.
C13_ListsExactlyThePrefix ==
    (bret.op = "list_folder" /\ bret.ok)
        => {bret.keys[i] : i \in 1..Len(bret.keys)}
               = {k \in KeySet : store[k].present /\ IsPrefix(bret.path, k)}

\* C14: every operation of every provider makes one vendor call, and when it
\* fails it raises a RuntimeError that wraps the original exception and names
\* the path or operation.
C14_OneCallWrappedError ==
    bret.op # "none"
        => /\ bret.calls = 1
           /\ ~bret.ok => (bret.err = "RuntimeError" /\ bret.wraps /\ bret.names)

\* C21: with two servers on one work queue, a request is ready or held by
\* exactly one server, never both and never by two servers; a server starts
\* the function only on a request that has not been answered before; and
\* every call returns, with the reply computed from its own request.
C21_CompetingConsumers ==
    /\ [](\A tok \in 1..Len(sent) :
            Cardinality({s \in Servers : tok \in TokensOf(SeqRange(unacked[s]))})
              + (IF tok \in TokensOf(SeqRange(workq)) THEN 1 ELSE 0) <= 1)
    /\ [][\A s \in Servers :
            (spc[s] = "consuming" /\ spc'[s] = "handling")
                => /\ Current(s).correlation_id \notin TokensOf(replies)
                   /\ Current(s).correlation_id \notin acked]_vars
    /\ [](\A c \in Clients :
            cpc[c] = "returned" => result[c] = Some(ReplyFor(corr_id[c])))
    /\ \A c \in Clients : (cpc[c] = "waiting") ~> (cpc[c] = "returned")

\* both servers are in the function at once, each on the request of another
\* client
C21_Witness ==
    \E s, r \in Servers :
        /\ s # r
        /\ spc[s] = "handling"
        /\ spc[r] = "handling"
        /\ Current(s).reply_to # Current(r).reply_to

\* C22: when delete_folder(prefix) has returned successfully, list_folder of
\* the prefix is empty and no object under the prefix is left, however many
\* there were, and every object outside the prefix is as it was before.
C22_DeleteFolderDeletesAll ==
    [][(bret'.op = "delete_folder" /\ bret'.ok)
          => /\ Listed(store', bret'.path) = <<>>
             /\ UnderPrefix(store', bret'.path) = <<>>
             /\ \A k \in KeySet : ~IsPrefix(bret'.path, k) => store'[k] = store[k]
      ]_vars

\* C23 (as stated): a provider other than AWS and OCI, or a required key of
\* the provider given neither as argument nor in the environment, raises
\* ValueError with no service, signer or vendor client created; a Bucket that
\* was built has the name passed in and delegates to the chosen provider's
\* service, the only one created.
C23_ConstructValidates ==
    made.done =>
        /\ (made.prov \notin Providers \/ made.absentBoth # {})
              => /\ made.raised = "ValueError"
                 /\ made.services = {}
                 /\ ~made.signer
        /\ made.raised = "none"
              => /\ made.bucket = made.name
                 /\ provider = made.prov
                 /\ made.services = {made.prov}

\* C23 (amended): the same, except that for provider OCI on a host where the
\* instance metadata endpoint answers no key is required: nothing is checked
\* and the service is created with an instance-principals signer.
C23_ConstructValidatesOffInstance ==
    made.done =>
        /\ (made.prov \notin Providers \/ (made.absentBoth # {} /\ ~made.instance))
              => /\ made.raised = "ValueError"
                 /\ made.services = {}
                 /\ ~made.signer
        /\ made.raised = "none"
              => /\ made.bucket = made.name
                 /\ provider = made.prov
                 /\ made.services = {made.prov}

\* an OCI Bucket outside OCI was refused for a missing key although another
\* key came from the environment only
C23_Witness ==
    /\ made.done
    /\ made.prov = "OCI"
    /\ ~made.instance
    /\ made.absentBoth = {"private_key"}
    /\ made.raised = "ValueError"

====
